---- MODULE Spec2Model ----
(***************************************************************************)
(* Model of goodluckxu-go/crontab: the rule parser, the next-occurrence    *)
(* engine (Cron.init, Cron.nextTime, Cron.isTrueNextTime) and the timer    *)
(* loop of Cron.Run / Cron.run with its task goroutines and the die        *)
(* channel.                                                                *)
(*                                                                         *)
(* Local time is modelled as a zone without daylight-saving transitions,   *)
(* so time.Date only normalises a day of month that the month lacks.      *)
(* Computation takes no wall-clock time: the clock moves only when a timer *)
(* elapses.                                                                *)
(***************************************************************************)
EXTENDS Integers, Sequences, FiniteSets, TLC

\* ------------------------------------------------------------------ bounds

\* Last calendar year the model follows; a search that runs past it is cut.
MaxYear == 2027

\* Timer firings (calls of Cron.run) followed in one execution.
MaxFires == 3

\* Timer firings followed in an execution that also runs the tasks.
MaxLoopFires == 2

\* Calls of Context.Stop one task makes.
MaxStops == 2

\* ---------------------------------------------------------------- calendar

\* cType, crontab.go:13-19
second == 0
minute == 1
hour == 2
day == 3
week == 4
month == 5

IsLeap(y) == (y % 4 = 0 /\ y % 100 # 0) \/ y % 400 = 0

DaysIn(y, m) ==
    IF m = 2 THEN (IF IsLeap(y) THEN 29 ELSE 28)
    ELSE IF m \in {4, 6, 9, 11} THEN 30 ELSE 31

RECURSIVE DaysBeforeMonth(_, _)
DaysBeforeMonth(y, m) ==
    IF m = 1 THEN 0 ELSE DaysBeforeMonth(y, m - 1) + DaysIn(y, m - 1)

\* Days from 0001-01-01 (proleptic Gregorian) to y-01-01.
DaysBeforeYear(y) ==
    365 * (y - 1) + ((y - 1) \div 4) - ((y - 1) \div 100) + ((y - 1) \div 400)

\* Day number of a real date; 0001-01-01 is day 1, a Monday.
DayNumber(y, m, d) == DaysBeforeYear(y) + DaysBeforeMonth(y, m) + d

\* time.Date(y, m, d, h, mi, s, 0, time.Local) for m in 1..12, d in 1..31:
\* a day the month lacks rolls over into the following month.
Date(y, m, d, h, mi, s) ==
    IF d <= DaysIn(y, m)
    THEN [year |-> y, month |-> m, day |-> d,
          hour |-> h, minute |-> mi, second |-> s]
    ELSE IF m = 12
    THEN [year |-> y + 1, month |-> 1, day |-> d - DaysIn(y, m),
          hour |-> h, minute |-> mi, second |-> s]
    ELSE [year |-> y, month |-> m + 1, day |-> d - DaysIn(y, m),
          hour |-> h, minute |-> mi, second |-> s]

\* time.Time.Weekday(): 0 is Sunday.
Weekday(t) == DayNumber(t.year, t.month, t.day) % 7

\* time.Time.Unix(): seconds since 1970-01-01 00:00:00.
Unix(t) ==
    ((DayNumber(t.year, t.month, t.day) - DayNumber(1970, 1, 1)) * 24 + t.hour) * 3600
        + t.minute * 60 + t.second

IsRealDate(t) == t.month \in 1..12 /\ t.day \in 1..DaysIn(t.year, t.month)

\* ------------------------------------------------------------------ helpers

\* inSliceByRun, unnamed/part_000:18-32 (result is a 0-based index)
RECURSIVE inSliceByRunFrom(_, _, _)
inSliceByRunFrom(v, slice, i) ==
    IF i > Len(slice) THEN 0
    ELSE IF slice[i] = v THEN i - 1
    ELSE IF slice[i] > v THEN i - 1
    ELSE inSliceByRunFrom(v, slice, i + 1)

inSliceByRun(v, slice) == inSliceByRunFrom(v, slice, 1)

\* isInArray, unnamed/part_000:34-41
isInArray(v, slice) == \E i \in 1..Len(slice) : slice[i] = v

\* The one element of a singleton set.  Only({e(x) : x \in {v}}) evaluates
\* v once and e on its value.
Only(S) == CHOOSE x \in S : TRUE

\* slice[idx] with Go's 0-based index
At(slice, idx) == slice[idx + 1]

\* ------------------------------------------------------------------- parser

\* One comma-separated atom of a field; ks is its written shape:
\*   "star" *      "num" a      "range" a-b
\*   "stepStar" */s      "stepFrom" a/s      "stepRange" a-b/s
Atom(ks, a, b, s) == [k |-> ks, a |-> a, b |-> b, s |-> s]
Star == Atom("star", 0, 0, 0)
Num(n) == Atom("num", n, 0, 0)
Range(a, b) == Atom("range", a, b, 0)
StepStar(s) == Atom("stepStar", 0, 0, s)
StepFrom(a, s) == Atom("stepFrom", a, 0, s)
StepRange(a, b, s) == Atom("stepRange", a, b, s)

\* Cron.getMaxBetween, crontab.go:470-489
getMaxBetween(ct) ==
    IF ct \in {second, minute} THEN [start |-> 0, end |-> 59]
    ELSE IF ct = hour THEN [start |-> 0, end |-> 23]
    ELSE IF ct = day THEN [start |-> 1, end |-> 31]
    ELSE IF ct = week THEN [start |-> 0, end |-> 6]
    ELSE [start |-> 1, end |-> 12]

\* validNum without the test n < min of crontab.go:464.
validNum_NoMin(n, ct, isInterval) ==
    LET mm == getMaxBetween(ct) IN
    IF isInterval /\ (n < 1 \/ n > mm.end + 1) THEN "InvalidStep"
    ELSE IF ~isInterval /\ n > mm.end THEN "ValueOutOfRange"
    ELSE "none"

\* Cron.validNum, crontab.go:459-468 ("none" is a nil error)
validNum(n, ct, isInterval) ==
    LET mm == getMaxBetween(ct) IN
    IF isInterval /\ (n < 1 \/ n > mm.end + 1) THEN "InvalidStep"
    ELSE IF ~isInterval /\ (n < mm.start \/ n > mm.end) THEN "ValueOutOfRange"
    ELSE "none"

\* Cron.getTimes, crontab.go:453-457: the positions it marks in runList
getTimes(start, end, interval) ==
    {i \in start..end : (i - start) % interval = 0}

\* One iteration of the loop of Cron.parseSingle, crontab.go:360-443:
\* the error it returns, or the positions it marks.
parseAtom(r, ct) ==
    LET mm == getMaxBetween(ct) IN
    IF r.k \in {"stepStar", "stepFrom", "stepRange"} THEN
        LET start == IF r.k = "stepStar" THEN mm.start ELSE r.a
            end == IF r.k = "stepRange" THEN r.b ELSE mm.end
        IN  IF validNum(r.s, ct, TRUE) # "none"
            THEN [err |-> validNum(r.s, ct, TRUE), marks |-> {}]
            ELSE IF r.k # "stepStar" /\ validNum(start, ct, FALSE) # "none"
            THEN [err |-> validNum(start, ct, FALSE), marks |-> {}]
            ELSE IF r.k = "stepRange" /\ validNum(end, ct, FALSE) # "none"
            THEN [err |-> validNum(end, ct, FALSE), marks |-> {}]
            ELSE IF start > end
            THEN [err |-> "RangeReversed", marks |-> {}]
            ELSE [err |-> "none", marks |-> getTimes(start, end, r.s)]
    ELSE IF r.k = "range" THEN
        IF validNum(r.a, ct, FALSE) # "none"
        THEN [err |-> validNum(r.a, ct, FALSE), marks |-> {}]
        ELSE IF validNum(r.b, ct, FALSE) # "none"
        THEN [err |-> validNum(r.b, ct, FALSE), marks |-> {}]
        ELSE IF r.a > r.b
        THEN [err |-> "RangeReversed", marks |-> {}]
        ELSE [err |-> "none", marks |-> getTimes(r.a, r.b, 1)]
    ELSE IF r.k = "star" THEN
        [err |-> "none", marks |-> getTimes(mm.start, mm.end, 1)]
    ELSE
        IF validNum(r.a, ct, FALSE) # "none"
        THEN [err |-> validNum(r.a, ct, FALSE), marks |-> {}]
        ELSE [err |-> "none", marks |-> {r.a}]

\* The loop over the atoms, crontab.go:359-444: stops at the first error.
RECURSIVE parseAtoms(_, _, _, _)
parseAtoms(rule, ct, i, runList) ==
    IF i > Len(rule) THEN [err |-> "none", marks |-> runList]
    ELSE Only({ IF p.err # "none" THEN p
                ELSE Only({ parseAtoms(rule, ct, i + 1, marked) :
                            marked \in {runList \cup p.marks} }) :
                p \in { parseAtom(rule[i], ct) } })

\* The closing loop of Cron.parseSingle, crontab.go:445-449: the marked
\* positions k of runList, in the order of k.
RECURSIVE collectMarks(_, _, _)
collectMarks(runList, k, size) ==
    IF k >= size THEN <<>>
    ELSE (IF k \in runList THEN <<k>> ELSE <<>>) \o collectMarks(runList, k + 1, size)

\* Cron.parseSingle, crontab.go:358-451; size is len(runList)
parseSingle(rule, ct, size) ==
    Only({ IF p.err # "none" THEN [err |-> p.err, rs |-> <<>>]
           ELSE [err |-> "none", rs |-> collectMarks(p.marks, 0, size)] :
           p \in { parseAtoms(rule, ct, 1, {}) } })

\* len of the scratch array parseRules makes for a field, crontab.go:326-351
runListLen(ct) ==
    IF ct \in {second, minute} THEN 60
    ELSE IF ct = hour THEN 24
    ELSE IF ct = day THEN 32
    ELSE IF ct = week THEN 7
    ELSE 13

\* Cron.parseRules, crontab.go:319-356: rules is the list of tokens that
\* strings.Split(c.rules, " ") yields, each a list of atoms.  The result is
\* the first error, or the six FieldSets and their lengths.
RECURSIVE firstParseErr(_, _)
firstParseErr(ruleList, ct) ==
    IF ct > month THEN "none"
    ELSE LET e == parseSingle(ruleList[ct + 1], ct, runListLen(ct)).err IN
         IF e # "none" THEN e ELSE firstParseErr(ruleList, ct + 1)

parseRules(ruleList) ==
    IF Len(ruleList) # 6 THEN [err |-> "MalformedRule"]
    ELSE IF firstParseErr(ruleList, second) # "none"
    THEN [err |-> firstParseErr(ruleList, second)]
    ELSE LET f(ct) == parseSingle(ruleList[ct + 1], ct, runListLen(ct)).rs IN
         [err |-> "none",
          seconds |-> f(second), minutes |-> f(minute), hours |-> f(hour),
          days |-> f(day), weeks |-> f(week), months |-> f(month),
          timesLen |-> [ct \in 0..5 |-> Len(f(ct))]]

\* ------------------------------------------------------------------- engine

\* Cron.getNextTime, crontab.go:296-300
getNextTime(c) ==
    Date(c.year, At(c.months, c.timesIdx[5]), At(c.days, c.timesIdx[3]),
         At(c.hours, c.timesIdx[2]), At(c.minutes, c.timesIdx[1]),
         At(c.seconds, c.timesIdx[0]))

\* isTrueNextTime without the test of the weekday of crontab.go:313-315.
isTrueNextTime_NoWeekday(c, nowYear, yearLen) ==
    Only({ IF yearLen # -1 /\ nowYear + 1 + yearLen <= t.year THEN "panic"
           ELSE IF t.year # c.year \/ t.day # At(c.days, c.timesIdx[3]) THEN "false"
           ELSE "true" : t \in {getNextTime(c)} })

\* isTrueNextTime without the test of the horizon of crontab.go:305-308.
isTrueNextTime_NoHorizon(c, nowYear, yearLen) ==
    Only({ IF t.year # c.year \/ t.day # At(c.days, c.timesIdx[3]) THEN "false"
           ELSE IF ~isInArray(Weekday(t), c.weeks) THEN "false"
           ELSE "true" : t \in {getNextTime(c)} })

\* Cron.isTrueNextTime, crontab.go:302-317: "panic", "true" or "false".
\* nowYear is time.Now().Year(), yearLen the global maxYearLen.
isTrueNextTime(c, nowYear, yearLen) ==
    Only({ IF yearLen # -1 /\ nowYear + 1 + yearLen <= t.year THEN "panic"
           ELSE IF t.year # c.year \/ t.day # At(c.days, c.timesIdx[3]) THEN "false"
           ELSE IF ~isInArray(Weekday(t), c.weeks) THEN "false"
           ELSE "true" : t \in {getNextTime(c)} })

\* validMonthDay without the case for February of crontab.go:154-158.
validMonthDay_NoFebruary(c) ==
    \E last \in {At(c.days, c.timesLen[3] - 1)} :
        \E i \in 1..Len(c.months) :
            IF c.months[i] \in {1, 3, 5, 7, 8, 10, 12} THEN TRUE
            ELSE last <= 30

\* Cron.validMonthDay, crontab.go:147-169: TRUE when it returns, FALSE when
\* it panics with errorNull.
validMonthDay(c) ==
    \E last \in {At(c.days, c.timesLen[3] - 1)} :
        \E i \in 1..Len(c.months) :
            IF c.months[i] \in {1, 3, 5, 7, 8, 10, 12} THEN TRUE
            ELSE IF c.months[i] = 2 THEN last <= 29
            ELSE last <= 30

\* One field of the pass of Cron.init, crontab.go:181-234 (minute, hour, day
\* and month are the same five statements): st is [idx, isNext], comp the
\* component of nowTime, finer the fields reset when the value differs.
initField(st, ct, slice, len, comp, finer) ==
    Only({ [idx |-> IF At(slice, sel) # comp
                    THEN [i \in 0..5 |-> IF i \in finer THEN 0
                                         ELSE IF i = ct THEN sel ELSE st.idx[i]]
                    ELSE [st.idx EXCEPT ![ct] = sel],
            isNext |-> At(slice, sel) < comp] :
           sel \in { IF st.isNext THEN (inSliceByRun(comp, slice) + 1) % len
                     ELSE inSliceByRun(comp, slice) } })

\* The pass of Cron.init over the fields, crontab.go:173-243.
initCursor(c, nowTime) ==
    Only({ IF s5.isNext
           THEN [c EXCEPT !.year = nowTime.year + 1,
                          !.timesIdx = [i \in 0..5 |-> IF i = week THEN s5.idx[i] ELSE 0]]
           ELSE [c EXCEPT !.year = nowTime.year, !.timesIdx = s5.idx] :
        s5 \in { initField(s3, 5, c.months, c.timesLen[5], nowTime.month, {0, 1, 2, 3}) :
        s3 \in { initField(s2, 3, c.days, c.timesLen[3], nowTime.day, {0, 1, 2}) :
        s2 \in { initField(s1, 2, c.hours, c.timesLen[2], nowTime.hour, {0, 1}) :
        s1 \in { initField(s0, 1, c.minutes, c.timesLen[1], nowTime.minute, {0}) :
        s0 \in { [idx |-> [c.timesIdx EXCEPT ![0] = i0],
                  isNext |-> At(c.seconds, i0) < nowTime.second] :
        i0 \in { inSliceByRun(nowTime.second, c.seconds) } } } } } } })

\* The odometer loop of Cron.nextTime, crontab.go:251-265 (from = 0) and
\* crontab.go:275-289 (from = 3): field i is stepped, and the loop goes on to
\* the next field only when i wrapped to index 0; the week field is skipped;
\* the year is stepped when the month wrapped.
RECURSIVE rollIdx(_, _, _)
rollIdx(idx, len, i) ==
    IF i > 5 THEN [idx |-> idx, isNext |-> TRUE]
    ELSE IF i = week THEN rollIdx(idx, len, i + 1)
    ELSE Only({ IF idx1[i] # 0 THEN [idx |-> idx1, isNext |-> FALSE]
                ELSE rollIdx(idx1, len, i + 1) :
                idx1 \in { [idx EXCEPT ![i] = (idx[i] + 1) % len[i]] } })

\* roll without the step of the year after the first loop, crontab.go:263-265.
roll_NoYearCarry(c, from) ==
    Only({ [c EXCEPT !.timesIdx = r.idx,
                     !.year = IF r.isNext /\ from # 0 THEN c.year + 1 ELSE c.year] :
           r \in { rollIdx(c.timesIdx, c.timesLen, from) } })

\* roll with the week index stepped like a wheel between day and month,
\* against the skip of crontab.go:253-255 and 277-279.
roll_WeekWheel(c, from) ==
    Only({ [c EXCEPT !.timesIdx = [r.idx EXCEPT ![week] =
                                      IF r.idx[day] = 0 THEN (@ + 1) % c.timesLen[week] ELSE @],
                     !.year = IF r.isNext THEN c.year + 1 ELSE c.year] :
           r \in { rollIdx(c.timesIdx, c.timesLen, from) } })

roll(c, from) ==
    Only({ [c EXCEPT !.timesIdx = r.idx,
                     !.year = IF r.isNext THEN c.year + 1 ELSE c.year] :
           r \in { rollIdx(c.timesIdx, c.timesLen, from) } })

\* rollAndTest whose escalation rolls from the month, not from the day of
\* crontab.go:275.
rollAndTest_FromMonth(c, from, nowYear, yearLen) ==
    Only({ [c |-> c1, v |-> isTrueNextTime(c1, nowYear, yearLen)] :
           c1 \in { roll(c, IF from = 3 THEN 5 ELSE from) } })

\* One turn of a loop of Cron.nextTime: the roll and the test of its result.
rollAndTest(c, from, nowYear, yearLen) ==
    Only({ [c |-> c1, v |-> isTrueNextTime(c1, nowYear, yearLen)] :
           c1 \in { roll(c, from) } })

\* The escalation loop of Cron.nextTime, crontab.go:273-293.  st is "ok"
\* (returned), "panic" (isTrueNextTime panicked) or "cut" (the search left
\* the years the model follows).
RECURSIVE escalate(_, _, _)
escalate(c, nowYear, yearLen) ==
    Only({ IF s.v = "panic" THEN [st |-> "panic", c |-> s.c]
           ELSE IF s.v = "true" THEN [st |-> "ok", c |-> s.c]
           ELSE IF s.c.year > MaxYear THEN [st |-> "cut", c |-> s.c]
           ELSE escalate(s.c, nowYear, yearLen) :
           s \in { rollAndTest(c, 3, nowYear, yearLen) } })

\* nextTime without the reset of the second, minute and hour index of
\* crontab.go:270-272.
nextTime_NoReset(c, nowYear, yearLen) ==
    Only({ IF s.v = "panic" THEN [st |-> "panic", c |-> s.c]
           ELSE IF s.v = "true" THEN [st |-> "ok", c |-> s.c]
           ELSE escalate(s.c, nowYear, yearLen) :
           s \in { rollAndTest(c, 0, nowYear, yearLen) } })

\* Cron.nextTime, crontab.go:249-294
nextTime(c, nowYear, yearLen) ==
    Only({ IF s.v = "panic" THEN [st |-> "panic", c |-> s.c]
           ELSE IF s.v = "true" THEN [st |-> "ok", c |-> s.c]
           ELSE escalate([s.c EXCEPT !.timesIdx[0] = 0, !.timesIdx[1] = 0,
                                     !.timesIdx[2] = 0], nowYear, yearLen) :
           s \in { rollAndTest(c, 0, nowYear, yearLen) } })

\* Cron.init, crontab.go:171-247 (without the make of c.die)
cronInit(c, nowTime, yearLen) ==
    Only({ Only({ IF v = "panic" THEN [st |-> "panic", c |-> c1]
                  ELSE IF v = "true" THEN [st |-> "ok", c |-> c1]
                  ELSE nextTime(c1, nowTime.year, yearLen) :
                  v \in { isTrueNextTime(c1, nowTime.year, yearLen) } }) :
           c1 \in { initCursor(c, nowTime) } })

\* alreadyFired without the comparison of the seconds of crontab.go:113.
alreadyFired_NoSecond(c) ==
    /\ c.beforeTimePtr # <<>>
    /\ c.beforeTimePtr[1].year = c.year
    /\ c.beforeTimePtr[1].month = At(c.months, c.timesIdx[5])
    /\ c.beforeTimePtr[1].day = At(c.days, c.timesIdx[3])
    /\ c.beforeTimePtr[1].hour = At(c.hours, c.timesIdx[2])
    /\ c.beforeTimePtr[1].minute = At(c.minutes, c.timesIdx[1])

\* The test of Cron.Run for an occurrence that already fired, crontab.go:108-113
alreadyFired(c) ==
    /\ c.beforeTimePtr # <<>>
    /\ c.beforeTimePtr[1].year = c.year
    /\ c.beforeTimePtr[1].month = At(c.months, c.timesIdx[5])
    /\ c.beforeTimePtr[1].day = At(c.days, c.timesIdx[3])
    /\ c.beforeTimePtr[1].hour = At(c.hours, c.timesIdx[2])
    /\ c.beforeTimePtr[1].minute = At(c.minutes, c.timesIdx[1])
    /\ c.beforeTimePtr[1].second = At(c.seconds, c.timesIdx[0])

\* -------------------------------------------------------------------- state

VARIABLES
    cron,        \* the Cron struct: rules, beforeTimePtr (<<>> is nil), die,
                 \* t (index into timers, 0 is nil), the six FieldSets, year,
                 \* timesLen, timesIdx
    maxYearLen,  \* the package variable maxYearLen
    now,         \* the wall clock, time.Now()
    pc,          \* where Cron.Run stands
    err,         \* the panic that left Run or a timer goroutine, or "none"
    timers,      \* the timers made by time.AfterFunc: [st, at]
    deferT,      \* the receiver of the deferred c.t.Stop() of Run (0: none)
    cb,          \* where the timer goroutine running Cron.run stands
    tasks,       \* the goroutines started by Cron.run, one per firing: where
                 \* it stands (pc), what it read of the cursor (date,
                 \* beginTime), its calls of Stop (stops) and the instant
                 \* the timer that started it was armed for (armed)
    ref,         \* nowTime as Cron.init read it (<<>> before)
    trace        \* the instants init and nextTime returned with, in order

vars == <<cron, maxYearLen, now, pc, err, timers, deferT, cb, tasks, ref, trace>>

\* NewCron, crontab.go:61-63: every other field has its zero value
NewCron(rules) ==
    [rules |-> rules, beforeTimePtr |-> <<>>, die |-> "nil", t |-> 0,
     seconds |-> <<>>, minutes |-> <<>>, hours |-> <<>>, days |-> <<>>,
     weeks |-> <<>>, months |-> <<>>, year |-> 0,
     timesLen |-> [i \in 0..5 |-> 0], timesIdx |-> [i \in 0..5 |-> 0]]

\* Cron.SetBeforeTime, crontab.go:94-98
SetBeforeTime(c, beforeTime) == [c EXCEPT !.beforeTimePtr = <<beforeTime>>]

T(y, mo, d, h, mi, s) ==
    [year |-> y, month |-> mo, day |-> d, hour |-> h, minute |-> mi, second |-> s]

\* The rule "s m h d w mo" as the six tokens of strings.Split(rules, " ")
Rule(s, m, h, d, w, mo) == <<s, m, h, d, w, mo>>

\* Rules an execution may be constructed with.
NamedRules ==
    { Rule(<<Num(0)>>, <<Num(0)>>, <<Num(0)>>, <<Star>>, <<Num(1)>>, <<Star>>),
      Rule(<<Num(0)>>, <<Num(0)>>, <<Num(12)>>, <<Star>>, <<Star>>, <<Star>>),
      Rule(<<Num(0)>>, <<Num(0), Num(15), Num(30), Num(45)>>, <<Star>>, <<Star>>, <<Star>>, <<Star>>),
      Rule(<<Num(0)>>, <<StepStar(15)>>, <<Range(9, 17)>>, <<Star>>, <<Range(1, 5)>>, <<Star>>),
      Rule(<<Num(0)>>, <<Num(0)>>, <<Num(0)>>, <<Num(1)>>, <<Star>>, <<Num(1)>>),
      Rule(<<Num(0)>>, <<Num(0)>>, <<Num(0)>>, <<Num(31)>>, <<Star>>, <<Num(2)>>),
      Rule(<<Num(0)>>, <<Num(0)>>, <<Num(0)>>, <<Star>>, <<Star>>, <<Num(2)>>),
      Rule(<<Num(0)>>, <<Num(0)>>, <<Num(0)>>, <<Num(1), Num(31)>>, <<Star>>, <<Num(4)>>),
      Rule(<<Num(0)>>, <<Num(0)>>, <<Num(0)>>, <<Num(29)>>, <<Star>>, <<Num(2)>>),
      Rule(<<Num(0)>>, <<Num(0)>>, <<Num(0)>>, <<Num(29)>>, <<Num(1)>>, <<Num(2)>>),
      Rule(<<Num(0)>>, <<Num(0)>>, <<Num(0)>>, <<Num(30)>>, <<Star>>, <<Num(2), Num(4)>>),
      Rule(<<Num(0)>>, <<Num(0)>>, <<Num(0)>>, <<Num(31)>>, <<Star>>, <<Star>>),
      Rule(<<Num(0)>>, <<Num(0)>>, <<Num(0)>>, <<Num(30), Num(31)>>, <<Star>>, <<Num(2), Num(4), Num(6)>>),
      Rule(<<Num(59)>>, <<Num(59)>>, <<Num(23)>>, <<Num(31)>>, <<Star>>, <<Num(12)>>),
      Rule(<<Num(0)>>, <<Num(59)>>, <<Num(23)>>, <<Num(1), Num(31)>>, <<Star>>, <<Num(1), Num(12)>>),
      Rule(<<Num(0)>>, <<Num(0)>>, <<Num(0)>>, <<Num(30)>>, <<Star>>, <<Num(2)>>),
      Rule(<<Star>>, <<Star>>, <<Star>>, <<Star>>, <<Star>>, <<Star>>),
      Rule(<<StepStar(20)>>, <<StepFrom(50, 5)>>, <<StepRange(8, 20, 6)>>, <<Num(28), Range(30, 31)>>,
           <<Num(0), Num(6)>>, <<StepStar(6)>>),
      Rule(<<Num(70)>>, <<Star>>, <<Star>>, <<Star>>, <<Star>>, <<Star>>),
      Rule(<<Range(10, 5)>>, <<Star>>, <<Star>>, <<Star>>, <<Star>>, <<Star>>),
      Rule(<<Star>>, <<StepStar(0)>>, <<Star>>, <<Star>>, <<Star>>, <<Star>>),
      <<<<Star>>, <<Star>>, <<Star>>, <<Star>>, <<Star>>>> }

\* A family of rules built field by field.
FamilyRules ==
    { Rule(s, m, h, d, w, <<Star>>) :
        s \in {<<Num(0)>>, <<Num(5), Num(30)>>},
        m \in {<<Num(0)>>, <<Num(7)>>, <<StepStar(30)>>},
        h \in {<<Num(12)>>, <<Num(0), Num(23)>>},
        d \in {<<Star>>, <<Num(1)>>, <<Num(29), Num(31)>>},
        w \in {<<Star>>, <<Num(2)>>} }

Rules == NamedRules \cup FamilyRules

\* Atoms at and beyond the bounds validNum tests, crontab.go:461-466.
BoundaryAtoms ==
    { Num(0), Num(6), Num(7), Num(12), Num(13), Num(23), Num(24), Num(31), Num(32),
      Num(59), Num(60), Num(70),
      Range(0, 3), Range(5, 70), Range(10, 5), Range(3, 3),
      StepRange(10, 5, 2), StepRange(2, 70, 3), StepRange(1, 5, 32), StepRange(40, 80, 0),
      StepFrom(0, 2), StepFrom(3, 2),
      StepStar(0), StepStar(1), StepStar(7), StepStar(8), StepStar(12), StepStar(13),
      StepStar(14), StepStar(24), StepStar(25), StepStar(31), StepStar(32),
      StepStar(33), StepStar(60), StepStar(61) }

\* The rules with one such atom in one field and * in the others.
AtomRules ==
    { [i \in 1..6 |-> IF i = ct + 1 THEN <<a>> ELSE <<Star>>] :
        ct \in 0..5, a \in BoundaryAtoms }

\* Instants the wall clock may show when Run is called.
RefInstants ==
    { T(2024, 3, 9, 10, 7, 30), T(2024, 3, 9, 12, 0, 5), T(2024, 3, 9, 12, 0, 0),
      T(2024, 12, 31, 23, 59, 59), T(2024, 12, 28, 18, 30, 0),
      T(2024, 2, 29, 0, 0, 0), T(2025, 2, 28, 23, 7, 5), T(2025, 4, 30, 12, 7, 0),
      T(2025, 8, 31, 0, 0, 30), T(2025, 12, 31, 12, 30, 31) }

\* Values of maxYearLen (SetMaxYearLen, crontab.go:65-68; 1 is the default)
Horizons == {-1, 0, 1}

TypeOK ==
    /\ pc \in {"parseRules", "validMonthDay", "init", "skip", "afterFunc", "defer",
               "select", "stop", "return", "returned", "panicked"}
    /\ maxYearLen \in Horizons
    /\ Len(trace) <= MaxFires + 2

\* ------------------------------------------------------------------ actions

\* The state after NewCron(rules).SetFun(task), with or without
\* SetBeforeTime, at the call of Run.
InitWith(rs, instants, horizons) ==
    /\ \E r \in rs, b \in BOOLEAN :
         /\ now \in instants
         /\ cron = IF b THEN SetBeforeTime(NewCron(r), now) ELSE NewCron(r)
    /\ maxYearLen \in horizons
    /\ pc = "parseRules"
    /\ err = "none"
    /\ timers = <<>>
    /\ deferT = 0
    /\ cb = "idle"
    /\ tasks = <<>>
    /\ ref = <<>>
    /\ trace = <<>>

Init == InitWith(Rules, RefInstants, Horizons)

\* No unrecovered panic has ended the process.
Alive == cb # "crashed"

\* Cron.Run, crontab.go:102: c.parseRules()
RunParseRules ==
    /\ pc = "parseRules"
    /\ \E p \in {parseRules(cron.rules)} :
       IF p.err # "none"
       THEN /\ pc' = "panicked"
            /\ err' = p.err
            /\ UNCHANGED cron
       ELSE /\ pc' = "validMonthDay"
            /\ cron' = [cron EXCEPT !.seconds = p.seconds, !.minutes = p.minutes,
                                    !.hours = p.hours, !.days = p.days,
                                    !.weeks = p.weeks, !.months = p.months,
                                    !.timesLen = p.timesLen]
            /\ UNCHANGED err
    /\ UNCHANGED <<maxYearLen, now, timers, deferT, cb, tasks, ref, trace>>

\* RunValidMonthDay whose error does not leave Run.
RunValidMonthDay_GoesOn ==
    /\ pc = "validMonthDay"
    /\ IF validMonthDay(cron)
       THEN pc' = "init" /\ UNCHANGED err
       ELSE pc' = "init" /\ err' = "UnsatisfiableRule"
    /\ UNCHANGED <<cron, maxYearLen, now, timers, deferT, cb, tasks, ref, trace>>

\* Cron.Run, crontab.go:104: c.validMonthDay()
RunValidMonthDay ==
    /\ pc = "validMonthDay"
    /\ IF validMonthDay(cron)
       THEN pc' = "init" /\ UNCHANGED err
       ELSE pc' = "panicked" /\ err' = "UnsatisfiableRule"
    /\ UNCHANGED <<cron, maxYearLen, now, timers, deferT, cb, tasks, ref, trace>>

\* Cron.Run, crontab.go:106: c.init()
RunInit ==
    /\ pc = "init"
    /\ \E r \in {cronInit(cron, now, maxYearLen)} :
       /\ r.st # "cut"
       /\ cron' = [r.c EXCEPT !.die = "made"]
       /\ ref' = <<now>>
       /\ IF r.st = "ok"
          THEN /\ pc' = "skip"
               /\ trace' = <<getNextTime(r.c)>>
               /\ UNCHANGED err
          ELSE /\ pc' = "panicked"
               /\ err' = "NoFeasibleOccurrence"
               /\ UNCHANGED trace
    /\ UNCHANGED <<maxYearLen, now, timers, deferT, cb, tasks>>

\* Cron.Run, crontab.go:108-116: skip an occurrence that already fired
RunSkip ==
    /\ pc = "skip"
    /\ IF alreadyFired(cron)
       THEN \E r \in {nextTime(cron, now.year, maxYearLen)} :
            /\ r.st # "cut"
            /\ cron' = r.c
            /\ IF r.st = "ok"
               THEN /\ pc' = "afterFunc"
                    /\ trace' = Append(trace, getNextTime(r.c))
                    /\ UNCHANGED err
               ELSE /\ pc' = "panicked"
                    /\ err' = "NoFeasibleOccurrence"
                    /\ UNCHANGED trace
       ELSE /\ pc' = "afterFunc"
            /\ UNCHANGED <<cron, err, trace>>
    /\ UNCHANGED <<maxYearLen, now, timers, deferT, cb, tasks, ref>>

\* time.AfterFunc(d, f) with d = getNextTime().Unix() - time.Now().Unix():
\* a new timer that elapses at the instant getNextTime() (at once when that
\* is not after now)
AfterFunc(c) == [st |-> "armed", at |-> getNextTime(c)]

\* Timer.Stop: an armed timer will not fire; a fired or stopped one is left
StopTimer(ts, i) ==
    IF i # 0 /\ ts[i].st = "armed" THEN [ts EXCEPT ![i].st = "stopped"] ELSE ts

\* Cron.Run, crontab.go:117-119: c.t = time.AfterFunc(...)
RunAfterFunc ==
    /\ pc = "afterFunc"
    /\ Alive
    /\ timers' = Append(timers, AfterFunc(cron))
    /\ cron' = [cron EXCEPT !.t = Len(timers) + 1]
    /\ pc' = "defer"
    /\ UNCHANGED <<maxYearLen, now, err, deferT, cb, tasks, ref, trace>>

\* The timer elapses and its goroutine starts Cron.run, whose first
\* statement starts the task goroutine, crontab.go:129-139; at most bound
\* firings are followed.
Fire(bound) ==
    /\ Alive
    /\ Len(tasks) < bound
    /\ \E i \in 1..Len(timers) :
         /\ timers[i].st = "armed"
         /\ timers' = [timers EXCEPT ![i].st = "fired"]
         /\ now' = IF Unix(timers[i].at) > Unix(now) THEN timers[i].at ELSE now
         /\ tasks' = Append(tasks, [pc |-> "start", armed |-> timers[i].at,
                                    date |-> <<>>, beginTime |-> <<>>, stops |-> 0])
    /\ cb' = "nextTime"
    /\ UNCHANGED <<cron, maxYearLen, pc, err, deferT, ref, trace>>

TimerFires == Fire(MaxFires)

\* Cron.run, crontab.go:141: c.nextTime().  Its panic is recovered by
\* nobody and ends the process.
CbNextTime ==
    /\ cb = "nextTime"
    /\ \E r \in {nextTime(cron, now.year, maxYearLen)} :
       /\ r.st # "cut"
       /\ cron' = r.c
       /\ IF r.st = "ok"
          THEN /\ cb' = "afterFunc"
               /\ trace' = Append(trace, getNextTime(r.c))
               /\ UNCHANGED err
          ELSE /\ cb' = "crashed"
               /\ err' = "NoFeasibleOccurrence"
               /\ UNCHANGED trace
    /\ UNCHANGED <<maxYearLen, now, pc, timers, deferT, tasks, ref>>

\* Cron.run, crontab.go:142-144: c.t = time.AfterFunc(...)
CbAfterFunc ==
    /\ cb = "afterFunc"
    /\ timers' = Append(timers, AfterFunc(cron))
    /\ cron' = [cron EXCEPT !.t = Len(timers) + 1]
    /\ cb' = "idle"
    /\ UNCHANGED <<maxYearLen, now, pc, err, deferT, tasks, ref, trace>>

\* Cron.Run, crontab.go:120: defer c.t.Stop() evaluates its receiver c.t
RunDefer ==
    /\ pc = "defer"
    /\ Alive
    /\ deferT' = cron.t
    /\ pc' = "select"
    /\ UNCHANGED <<cron, maxYearLen, now, err, timers, cb, tasks, ref, trace>>

\* Cron.Run, crontab.go:122-123: the select receives from c.die what task
\* goroutine i sends, from Context.Stop (crontab.go:52) or from the deferred
\* recover (crontab.go:132); the send returns.
RunSelect ==
    /\ pc = "select"
    /\ Alive
    /\ \E i \in 1..Len(tasks) :
         /\ tasks[i].pc \in {"stop", "recover"}
         /\ tasks' = [tasks EXCEPT ![i].pc = IF @ = "stop" THEN "task" ELSE "done"]
    /\ pc' = "stop"
    /\ UNCHANGED <<cron, maxYearLen, now, err, timers, deferT, cb, ref, trace>>

\* Cron.Run, crontab.go:124: c.t.Stop()
RunStop ==
    /\ pc = "stop"
    /\ Alive
    /\ timers' = StopTimer(timers, cron.t)
    /\ pc' = "return"
    /\ UNCHANGED <<cron, maxYearLen, now, err, deferT, cb, tasks, ref, trace>>

\* Cron.Run returns, crontab.go:126, running the deferred Stop of line 120
RunReturn ==
    /\ pc = "return"
    /\ Alive
    /\ timers' = StopTimer(timers, deferT)
    /\ pc' = "returned"
    /\ UNCHANGED <<cron, maxYearLen, now, err, deferT, cb, tasks, ref, trace>>

\* The task goroutine evaluates c.getNextTime() for the Context,
\* crontab.go:137 and 297-298, while the timer goroutine may be in
\* c.nextTime(): first the year, month and day it passes to time.Date ...
TaskReadDate(i) ==
    /\ Alive
    /\ tasks[i].pc = "start"
    /\ tasks' = [tasks EXCEPT ![i].pc = "read",
                              ![i].date = <<cron.year, At(cron.months, cron.timesIdx[5]),
                                            At(cron.days, cron.timesIdx[3])>>]
    /\ UNCHANGED <<cron, maxYearLen, now, pc, err, timers, deferT, cb, ref, trace>>

\* ... then the hour, minute and second; c.task is called with the Context
TaskReadClock(i) ==
    /\ Alive
    /\ tasks[i].pc = "read"
    /\ tasks' = [tasks EXCEPT ![i].pc = "task",
                              ![i].beginTime =
                                  <<Date(tasks[i].date[1], tasks[i].date[2], tasks[i].date[3],
                                         At(cron.hours, cron.timesIdx[2]),
                                         At(cron.minutes, cron.timesIdx[1]),
                                         At(cron.seconds, cron.timesIdx[0]))>>]
    /\ UNCHANGED <<cron, maxYearLen, now, pc, err, timers, deferT, cb, ref, trace>>

\* The task calls Context.Stop, crontab.go:51-53, and blocks in the send on
\* the unbuffered c.die until Run receives.
TaskStop(i) ==
    /\ Alive
    /\ tasks[i].pc = "task"
    /\ tasks[i].stops < MaxStops
    /\ tasks' = [tasks EXCEPT ![i].pc = "stop", ![i].stops = @ + 1]
    /\ UNCHANGED <<cron, maxYearLen, now, pc, err, timers, deferT, cb, ref, trace>>

\* The task panics: the deferred function recovers, crontab.go:130-134, and
\* blocks in its send on c.die until Run receives.
TaskPanic(i) ==
    /\ Alive
    /\ tasks[i].pc = "task"
    /\ tasks' = [tasks EXCEPT ![i].pc = "recover"]
    /\ UNCHANGED <<cron, maxYearLen, now, pc, err, timers, deferT, cb, ref, trace>>

\* The task returns; recover() yields nil and nothing is sent.
TaskReturn(i) ==
    /\ Alive
    /\ tasks[i].pc = "task"
    /\ tasks' = [tasks EXCEPT ![i].pc = "done"]
    /\ UNCHANGED <<cron, maxYearLen, now, pc, err, timers, deferT, cb, ref, trace>>

\* The rule parser and the occurrence engine as Run and the timer goroutine
\* drive them; the task goroutines are not scheduled here.
Next ==
    \/ RunParseRules
    \/ RunValidMonthDay
    \/ RunInit
    \/ RunSkip
    \/ RunAfterFunc
    \/ RunDefer
    \/ TimerFires
    \/ CbNextTime
    \/ CbAfterFunc

Spec == Init /\ [][Next]_vars

\* The executions that start from a rule of AtomRules.
InitAtom == InitWith(AtomRules, {T(2024, 3, 9, 12, 0, 5)}, {1})

SpecAtom == InitAtom /\ [][Next]_vars

\* "0 */15 9-17 * 1-5 *"
WorkdayRule ==
    Rule(<<Num(0)>>, <<StepStar(15)>>, <<Range(9, 17)>>, <<Star>>, <<Range(1, 5)>>, <<Star>>)

\* The Saturdays of 2024, of the end of 2022 and of the end of 2023, at
\* times of day before, within and after the hours of WorkdayRule.
SaturdayInstants ==
    { t \in { T(ymd[1], ymd[2], ymd[3], tod[1], tod[2], tod[3]) :
                ymd \in ({2024} \X (1..12) \X (1..31))
                           \cup {<<2022, 12, 31>>, <<2023, 12, 30>>},
                tod \in { <<0, 0, 0>>, <<8, 59, 59>>, <<9, 0, 0>>, <<12, 7, 30>>,
                          <<17, 45, 0>>, <<18, 0, 0>>, <<23, 59, 59>> } } :
        IsRealDate(t) /\ Weekday(t) = 6 }

\* The executions of WorkdayRule started on a Saturday.
InitSaturday == InitWith({WorkdayRule}, SaturdayInstants, Horizons)

SpecSaturday == InitSaturday /\ [][Next]_vars

\* The executions of the whole loop start from a rule, a clock and a
\* horizon of this list.
LoopStarts ==
    { <<Rule(<<Star>>, <<Star>>, <<Star>>, <<Star>>, <<Star>>, <<Star>>),
        T(2024, 3, 9, 12, 0, 5), 1>>,
      <<Rule(<<Num(0)>>, <<Num(0)>>, <<Num(12)>>, <<Star>>, <<Star>>, <<Star>>),
        T(2024, 3, 9, 12, 0, 5), 1>>,
      <<Rule(<<Star>>, <<Star>>, <<Star>>, <<Star>>, <<Star>>, <<Star>>),
        T(2024, 12, 31, 23, 59, 58), 0>> }

InitLoop ==
    \E st \in LoopStarts : InitWith({st[1]}, {st[2]}, {st[3]})

LoopTimerFires == Fire(MaxLoopFires)

\* Run, the timer goroutine and the task goroutines, in every interleaving.
NextLoop ==
    \/ RunParseRules
    \/ RunValidMonthDay
    \/ RunInit
    \/ RunSkip
    \/ RunAfterFunc
    \/ RunDefer
    \/ LoopTimerFires
    \/ CbNextTime
    \/ CbAfterFunc
    \/ RunSelect
    \/ RunStop
    \/ RunReturn
    \/ \E i \in 1..Len(tasks) :
         \/ TaskReadDate(i)
         \/ TaskReadClock(i)
         \/ TaskStop(i)
         \/ TaskPanic(i)
         \/ TaskReturn(i)

SpecLoop == InitLoop /\ [][NextLoop]_vars

\* SpecLoop with the goroutine of Run scheduled whenever it can proceed: its
\* receive from c.die (crontab.go:122-123) when a sender waits, and its two
\* last statements.
SpecLoopFair ==
    /\ SpecLoop
    /\ WF_vars(RunSelect)
    /\ WF_vars(RunStop)
    /\ WF_vars(RunReturn)

\* --------------------------------------------------- what the claims speak of

Last(q) == q[Len(q)]

Values(slice) == {slice[i] : i \in 1..Len(slice)}

\* Run holds a cursor that init (and the skip, and every advance since)
\* returned with.
Exposed ==
    /\ pc \notin {"parseRules", "validMonthDay", "init", "panicked"}
    /\ Alive

\* The date the cursor selects exists in the calendar.
CursorIsRealDate(c) ==
    At(c.days, c.timesIdx[3]) <= DaysIn(c.year, At(c.months, c.timesIdx[5]))

\* Instant t satisfies the six FieldSets of c.
Legal(c, t) ==
    /\ IsRealDate(t)
    /\ t.second \in Values(c.seconds)
    /\ t.minute \in Values(c.minutes)
    /\ t.hour \in Values(c.hours)
    /\ t.day \in Values(c.days)
    /\ t.month \in Values(c.months)
    /\ Weekday(t) \in Values(c.weeks)

\* The least value of the FieldSet that is at least v (-1: none).
LeastFrom(slice, v) ==
    IF \E x \in Values(slice) : x >= v
    THEN CHOOSE x \in Values(slice) : x >= v /\ \A y \in Values(slice) : y >= v => x <= y
    ELSE -1

\* The earliest time of day of the FieldSets not before h:m:s (<<>>: none).
TimeOfDayFrom(c, h, m, s) ==
    IF h \in Values(c.hours) /\ m \in Values(c.minutes) /\ LeastFrom(c.seconds, s) # -1
    THEN <<h, m, LeastFrom(c.seconds, s)>>
    ELSE IF h \in Values(c.hours) /\ LeastFrom(c.minutes, m + 1) # -1
    THEN <<h, LeastFrom(c.minutes, m + 1), c.seconds[1]>>
    ELSE IF LeastFrom(c.hours, h + 1) # -1
    THEN <<LeastFrom(c.hours, h + 1), c.minutes[1], c.seconds[1]>>
    ELSE <<>>

DateLegal(c, y, m, d) ==
    /\ m \in Values(c.months)
    /\ d \in Values(c.days)
    /\ d <= DaysIn(y, m)
    /\ DayNumber(y, m, d) % 7 \in Values(c.weeks)

\* The calendar date after y-m-d.
DayAfter(y, m, d) ==
    IF d < DaysIn(y, m) THEN <<y, m, d + 1>>
    ELSE IF m < 12 THEN <<y, m + 1, 1>>
    ELSE <<y + 1, 1, 1>>

\* Day d of month m of year y is allowed by the FieldSets and not before
\* the day numbered from.
DateLegalFrom(c, y, m, d, from) ==
    DateLegal(c, y, m, d) /\ DayNumber(y, m, d) >= from

\* The first date of year y or later, not before the day numbered from,
\* that the FieldSets allow (<<>>: none up to the year after MaxYear).
RECURSIVE FirstLegalDateIn(_, _, _)
FirstLegalDateIn(c, y, from) ==
    IF y > MaxYear + 1 THEN <<>>
    ELSE IF \E m \in Values(c.months), d \in Values(c.days) : DateLegalFrom(c, y, m, d, from)
    THEN Only({ <<y, m, CHOOSE d \in Values(c.days) :
                          /\ DateLegalFrom(c, y, m, d, from)
                          /\ \A e \in Values(c.days) :
                               DateLegalFrom(c, y, m, e, from) => d <= e>> :
                m \in { CHOOSE m \in Values(c.months) :
                          /\ \E d \in Values(c.days) : DateLegalFrom(c, y, m, d, from)
                          /\ \A n \in Values(c.months) :
                               (\E d \in Values(c.days) : DateLegalFrom(c, y, n, d, from))
                                   => m <= n } })
    ELSE FirstLegalDateIn(c, y + 1, from)

\* The first date from y-m-d on that the FieldSets allow.
FirstLegalDate(c, ymd) ==
    IF ymd[1] > MaxYear + 1 THEN <<>>
    ELSE FirstLegalDateIn(c, ymd[1], DayNumber(ymd[1], ymd[2], ymd[3]))

\* The earliest instant not before r that satisfies the six FieldSets, as a
\* sequence of one instant (<<>>: none up to the year after MaxYear).
EarliestLegal(c, r) ==
    IF DateLegal(c, r.year, r.month, r.day)
       /\ TimeOfDayFrom(c, r.hour, r.minute, r.second) # <<>>
    THEN Only({ <<T(r.year, r.month, r.day, tod[1], tod[2], tod[3])>> :
                tod \in {TimeOfDayFrom(c, r.hour, r.minute, r.second)} })
    ELSE Only({ IF d = <<>> THEN <<>>
                ELSE <<T(d[1], d[2], d[3], c.hours[1], c.minutes[1], c.seconds[1])>> :
                d \in {FirstLegalDate(c, DayAfter(r.year, r.month, r.day))} })

\* The most days month m has in any year.
MostDaysIn(m) == IF m = 2 THEN 29 ELSE IF m \in {4, 6, 9, 11} THEN 30 ELSE 31

\* No day of the DayOfMonth FieldSet occurs in any month of the Month FieldSet.
NoFeasiblePair(c) ==
    \A d \in Values(c.days), m \in Values(c.months) : d > MostDaysIn(m)

\* Run is past the feasibility check, passed or failed.
Checked ==
    \/ pc \notin {"parseRules", "validMonthDay", "panicked"}
    \/ pc = "panicked" /\ err \in {"UnsatisfiableRule", "NoFeasibleOccurrence"}

\* ------------------------------------------------------------------- claims

\* C1: every instant that init, the skip of Run or an advance returned with
\* is a real calendar date whose second, minute, hour, day of month, month
\* and weekday belong to their FieldSets.
C1_Validity ==
    Exposed => CursorIsRealDate(cron) /\ Legal(cron, getNextTime(cron))

\* C1 witness: the Monday rule "0 0 0 * 1 *" has been advanced twice.
C1_Witness ==
    /\ Exposed
    /\ Len(trace) >= 3
    /\ cron.weeks = <<1>>
    /\ cron.timesLen[3] = 31

\* C2: the instant init returns with is never earlier than the reference
\* instant it read.
C2_NotBeforeRef ==
    trace # <<>> => Unix(trace[1]) >= Unix(ref[1])

\* C3: the instant init returns with is the earliest instant not before the
\* reference instant that satisfies the six FieldSets.
C3_Minimal ==
    pc = "skip" => <<trace[1]>> = EarliestLegal(cron, ref[1])

\* C4: the instants returned by successive advances, from the one init
\* returned with, are strictly increasing.
C4_Monotone ==
    \A i \in 1..(Len(trace) - 1) : Unix(trace[i]) < Unix(trace[i + 1])

\* C4 witness: an advance that crossed into another year.
C4_Witness ==
    /\ Len(trace) >= 2
    /\ trace[Len(trace) - 1].year < Last(trace).year

\* The clock read by init stood at December 31 23:59:59 and the rule's next
\* occurrence is on January 1 of the next year.
NewYearsEveCase ==
    /\ ref # <<>>
    /\ ref[1].month = 12 /\ ref[1].day = 31
    /\ ref[1].hour = 23 /\ ref[1].minute = 59 /\ ref[1].second = 59
    /\ EarliestLegal(cron, ref[1]) # <<>>
    /\ EarliestLegal(cron, ref[1])[1].year = ref[1].year + 1
    /\ EarliestLegal(cron, ref[1])[1].month = 1
    /\ EarliestLegal(cron, ref[1])[1].day = 1

\* C8: with a horizon other than -1 no instant of a year from now's year + 1
\* + horizon on is returned; with horizon 0 and the clock at December 31
\* 23:59:59, init fails for a rule whose next occurrence is January 1 of
\* the next year; with horizon -1 no call fails for the horizon.
C8_Horizon ==
    /\ (maxYearLen # -1 /\ trace # <<>> /\ Exposed)
         => Last(trace).year < now.year + 1 + maxYearLen
    /\ (maxYearLen = 0 /\ NewYearsEveCase)
         => (pc = "panicked" /\ err = "NoFeasibleOccurrence")
    /\ maxYearLen = -1 => err # "NoFeasibleOccurrence"

\* C9: a rule none of whose days of month occurs in any of its months is
\* rejected by the feasibility check with UnsatisfiableRule.
C9_Rejects ==
    (Checked /\ NoFeasiblePair(cron))
        => (pc = "panicked" /\ err = "UnsatisfiableRule")

\* C9 witness: "0 0 0 31 * 2" was rejected.
C9_Witness ==
    /\ pc = "panicked"
    /\ err = "UnsatisfiableRule"
    /\ cron.days = <<31>>
    /\ cron.months = <<2>>

\* C10: the feasibility check rejects a rule only when none of its days of
\* month occurs in any of its months.
C10_RejectsOnly ==
    (pc = "panicked" /\ err = "UnsatisfiableRule") => NoFeasiblePair(cron)

\* C5: a call of Context.Stop returns to its caller: no task goroutine is
\* inside Stop once Run has taken a signal from c.die, after which nothing
\* receives from the channel again.
C5_StopReturns ==
    \A i \in 1..Len(tasks) :
        tasks[i].pc = "stop" => pc \notin {"stop", "return", "returned"}

NoTimerArmed == \A i \in 1..Len(timers) : timers[i].st # "armed"

\* C6: once Run has received the cancellation signal and returned, no timer
\* is armed, the cursor is not advanced and no task is dispatched.
C6_QuietAfterReturn ==
    /\ [](pc = "returned" => NoTimerArmed)
    /\ [][pc = "returned" =>
            /\ cron'.timesIdx = cron.timesIdx
            /\ cron'.year = cron.year
            /\ Len(tasks') = Len(tasks)]_vars

\* C7: the fire instant a task is given as BeginTime is the instant the
\* timer of its firing was armed for.
C7_BeginTime ==
    \A i \in 1..Len(tasks) :
        tasks[i].beginTime # <<>> => tasks[i].beginTime[1] = tasks[i].armed

\* The domain of a field, and the FieldSet of a field of c.
FieldDomain(ct) ==
    IF ct \in {second, minute} THEN 0..59
    ELSE IF ct = hour THEN 0..23
    ELSE IF ct = day THEN 1..31
    ELSE IF ct = week THEN 0..6
    ELSE 1..12

FieldSet(c, ct) ==
    IF ct = second THEN c.seconds
    ELSE IF ct = minute THEN c.minutes
    ELSE IF ct = hour THEN c.hours
    ELSE IF ct = day THEN c.days
    ELSE IF ct = week THEN c.weeks
    ELSE c.months

\* What is wrong with atom r written in field ct: a value out of the domain,
\* a range whose endpoints are in the domain and reversed, a step that is
\* not in 1..(max - min + 1).
AtomDefects(r, ct) ==
    (IF \/ r.k \in {"num", "stepFrom"} /\ r.a \notin FieldDomain(ct)
        \/ r.k \in {"range", "stepRange"}
             /\ (r.a \notin FieldDomain(ct) \/ r.b \notin FieldDomain(ct))
     THEN {"ValueOutOfRange"} ELSE {})
    \cup
    (IF /\ r.k \in {"range", "stepRange"}
        /\ r.a \in FieldDomain(ct) /\ r.b \in FieldDomain(ct) /\ r.a > r.b
     THEN {"RangeReversed"} ELSE {})
    \cup
    (IF /\ r.k \in {"stepStar", "stepFrom", "stepRange"}
        /\ r.s \notin 1..Cardinality(FieldDomain(ct))
     THEN {"InvalidStep"} ELSE {})

\* The places <<field, atom>> of a rule of six tokens where something is wrong.
DefectSites(rule) ==
    { site \in UNION { {<<ct, i>> : i \in 1..Len(rule[ct + 1])} : ct \in 0..5 } :
        AtomDefects(rule[site[1] + 1][site[2]], site[1]) # {} }

\* The rule Run parsed has six tokens and nothing wrong but e, in one atom
\* of one of the shapes ks.
OnlyDefect(e, ks) ==
    /\ pc # "parseRules"
    /\ Len(cron.rules) = 6
    /\ \E site \in DefectSites(cron.rules) :
         /\ DefectSites(cron.rules) = {site}
         /\ cron.rules[site[1] + 1][site[2]].k \in ks
         /\ AtomDefects(cron.rules[site[1] + 1][site[2]], site[1]) = {e}

\* C11: a rule whose one fault is a single value or a range endpoint (with
\* or without a step) out of the field's domain fails with ValueOutOfRange;
\* one whose one fault is a range with both endpoints in the domain and
\* reversed fails with RangeReversed; no FieldSet holds a value out of its
\* field's domain.
C11_RangeErrors ==
    /\ OnlyDefect("ValueOutOfRange", {"num", "range", "stepRange"})
         => (pc = "panicked" /\ err = "ValueOutOfRange")
    /\ OnlyDefect("RangeReversed", {"range", "stepRange"})
         => (pc = "panicked" /\ err = "RangeReversed")
    /\ \A ct \in 0..5 : Values(FieldSet(cron, ct)) \subseteq FieldDomain(ct)

\* C11 witness: "* * * 0 * *" was rejected for the day of month 0.
C11_Witness ==
    /\ pc = "panicked"
    /\ err = "ValueOutOfRange"
    /\ cron.rules[4] = <<Num(0)>>

\* C12: a rule whose one fault is a step of */S or A-B/S outside
\* 1..(max - min + 1) of its field fails with InvalidStep.
C12_StepBound ==
    OnlyDefect("InvalidStep", {"stepStar", "stepRange"})
        => (pc = "panicked" /\ err = "InvalidStep")

\* The errors of the parser and of the feasibility check.
RuleErrors ==
    {"MalformedRule", "ValueOutOfRange", "RangeReversed", "InvalidStep", "UnsatisfiableRule"}

\* C13: when the rule fails parsing or the feasibility check, Run has left
\* with the error, no timer was ever made and no task was dispatched.
C13_ErrorsBeforeTimers ==
    err \in RuleErrors => (pc = "panicked" /\ timers = <<>> /\ tasks = <<>>)

\* C13 witness: a rule of five tokens was rejected.
C13_Witness ==
    /\ pc = "panicked"
    /\ err = "MalformedRule"
    /\ Len(cron.rules) = 5
    /\ timers = <<>>

\* The Monday after the Saturday of instant t, at 09:00:00.
MondayAfter(t) ==
    Only({ T(d[1], d[2], d[3], 9, 0, 0) :
           d \in { DayAfter(sun[1], sun[2], sun[3]) :
                   sun \in {DayAfter(t.year, t.month, t.day)} } })

\* C14: for the rule "0 */15 9-17 * 1-5 *" and a clock that init read on a
\* Saturday, with a horizon that admits the Monday after it, init returns
\* with that Monday at 09:00:00.
C14_SaturdayToMonday ==
    (/\ ref # <<>>
     /\ cron.rules = WorkdayRule
     /\ Weekday(ref[1]) = 6
     /\ maxYearLen # -1 => MondayAfter(ref[1]).year < ref[1].year + 1 + maxYearLen)
        => (trace # <<>> /\ trace[1] = MondayAfter(ref[1]))

\* C14 witness: init read Saturday 2023-12-30 23:59:59 and returned with
\* Monday 2024-01-01 09:00:00.
C14_Witness ==
    /\ ref = <<T(2023, 12, 30, 23, 59, 59)>>
    /\ cron.rules = WorkdayRule
    /\ trace # <<>>
    /\ trace[1] = T(2024, 1, 1, 9, 0, 0)

\* The instant one second after t.
NextSecond(t) ==
    IF t.second < 59 THEN [t EXCEPT !.second = @ + 1]
    ELSE IF t.minute < 59 THEN [t EXCEPT !.second = 0, !.minute = @ + 1]
    ELSE IF t.hour < 23 THEN [t EXCEPT !.second = 0, !.minute = 0, !.hour = @ + 1]
    ELSE Only({ T(d[1], d[2], d[3], 0, 0, 0) : d \in {DayAfter(t.year, t.month, t.day)} })

\* The last-fired instant was supplied and is the instant init returned with.
FiredCandidate ==
    /\ cron.beforeTimePtr # <<>>
    /\ trace # <<>>
    /\ cron.beforeTimePtr[1] = trace[1]

\* C15: when Run is about to arm its first timer, the cursor was advanced
\* once past the instant init returned with if that instant is the supplied
\* last-fired instant, to the earliest legal instant strictly after it, and
\* was not advanced otherwise; no timer was armed before.
C15_SkipOnce ==
    pc = "afterFunc" =>
        /\ timers = <<>>
        /\ IF FiredCandidate
           THEN /\ Len(trace) = 2
                /\ getNextTime(cron) = trace[2]
                /\ <<trace[2]>> = EarliestLegal(cron, NextSecond(cron.beforeTimePtr[1]))
           ELSE /\ Len(trace) = 1
                /\ getNextTime(cron) = trace[1]

\* C15 witness: the every-second rule, with the clock's instant supplied as
\* last fired, is about to arm its first timer for the second after it.
C15_Witness ==
    /\ pc = "afterFunc"
    /\ FiredCandidate
    /\ cron.timesLen[0] = 60
    /\ Len(trace) = 2
    /\ Unix(trace[2]) = Unix(cron.beforeTimePtr[1]) + 1

\* An advance has just returned, to Run or to the timer goroutine.
Advanced ==
    /\ Len(trace) >= 2
    /\ pc = "afterFunc" \/ cb = "afterFunc"

\* C16: the instant an advance returns with is the earliest instant
\* strictly after the instant of the cursor it started from that is a real
\* date and satisfies the six FieldSets (when there is none up to the year
\* after MaxYear, the advance returns with a later year).
C16_AdvanceMinimal ==
    Advanced =>
        \E e \in {EarliestLegal(cron, NextSecond(trace[Len(trace) - 1]))} :
            IF e = <<>> THEN Last(trace).year > MaxYear + 1
            ELSE <<Last(trace)>> = e

\* C16 witness: an advance of "0 0 0 30 * 2,4" went through the escalation,
\* from April 30 over February to April 30 of the next year.
C16_Witness ==
    /\ Advanced
    /\ cron.days = <<30>>
    /\ cron.months = <<2, 4>>
    /\ trace[Len(trace) - 1].month = 4
    /\ Last(trace) = T(trace[Len(trace) - 1].year + 1, 4, 30, 0, 0, 0)

\* An advance in the timer goroutine failed with NoFeasibleOccurrence.
AdvanceFailed == cb = "crashed" /\ err = "NoFeasibleOccurrence"

\* C17: when an advance after a firing has failed with NoFeasibleOccurrence
\* and nothing of the program can take a step any more, Run has returned
\* and no timer is armed.
C17_FailedAdvanceEndsLoop ==
    (AdvanceFailed /\ ~ENABLED NextLoop) => (pc = "returned" /\ NoTimerArmed)

\* C18: when task i panicked and its recovered failure waits to be sent on
\* c.die while Run is at its wait point, Run eventually returns.
C18_TaskFailureEndsLoop ==
    \A i \in 1..MaxLoopFires :
        [](((i <= Len(tasks)) /\ pc = "select" /\ tasks[i].pc = "recover")
              => <>(pc = "returned"))

\* Run is past a parse that succeeded.
Parsed ==
    /\ pc # "parseRules"
    /\ ~(pc = "panicked" /\ err \in RuleErrors \ {"UnsatisfiableRule"})

StrictlyIncreasing(slice) ==
    \A i \in 1..(Len(slice) - 1) : slice[i] < slice[i + 1]

\* C19: after a successful parse each FieldSet is non-empty, strictly
\* increasing and within its field's domain, and timesLen holds its length;
\* once init has run every cursor index is within 0..len-1; the index of
\* the week field is never moved from 0.
C19_FieldSetsAndCursor ==
    /\ Parsed => \A ct \in 0..5 :
                    /\ FieldSet(cron, ct) # <<>>
                    /\ StrictlyIncreasing(FieldSet(cron, ct))
                    /\ Values(FieldSet(cron, ct)) \subseteq FieldDomain(ct)
                    /\ cron.timesLen[ct] = Len(FieldSet(cron, ct))
    /\ ref # <<>> => \A ct \in 0..5 : cron.timesIdx[ct] \in 0..(cron.timesLen[ct] - 1)
    /\ cron.timesIdx[week] = 0

\* C19 witness: the cursor of "*/20 50/5 8-20/6 28,30-31 0,6 */6" after an
\* advance, with the day index away from 0.
C19_Witness ==
    /\ Exposed
    /\ Len(trace) >= 2
    /\ cron.weeks = <<0, 6>>
    /\ cron.days = <<28, 30, 31>>
    /\ cron.timesIdx[day] > 0

\* The results of the calls of init and nextTime that are about to be made.
PendingCalls ==
    (IF pc = "init" THEN {cronInit(cron, now, maxYearLen)} ELSE {})
    \cup (IF pc = "skip" /\ alreadyFired(cron)
          THEN {nextTime(cron, now.year, maxYearLen)} ELSE {})
    \cup (IF cb = "nextTime" THEN {nextTime(cron, now.year, maxYearLen)} ELSE {})

\* C20: with a horizon other than -1 (and of a year the model follows) a
\* call of init or of nextTime ends, with a valid instant or with
\* NoFeasibleOccurrence, before its search has left the year now + 1 +
\* horizon: the escalation makes at most that many years of rolls.
C20_Terminates ==
    (maxYearLen # -1 /\ now.year + maxYearLen <= MaxYear) =>
        \A r \in PendingCalls :
            /\ r.st \in {"ok", "panic"}
            /\ r.c.year <= now.year + 1 + maxYearLen

\* C20 witness: init for "0 0 0 29 1 2" (a Monday February 29, none before
\* 2044) ended with NoFeasibleOccurrence under horizon 1.
C20_Witness ==
    /\ pc = "panicked"
    /\ err = "NoFeasibleOccurrence"
    /\ maxYearLen = 1
    /\ cron.days = <<29>>
    /\ cron.weeks = <<1>>
    /\ cron.year = ref[1].year + 2

====
